---- MODULE Spec2Model ----
(***************************************************************************)
(* The vault page of secure-vault (src/js/vault.js): the module-level      *)
(* session state of VaultModule, the remote tables it reads and writes,    *)
(* and its event handlers.  JavaScript runs one handler at a time; an      *)
(* async handler gives up control only at an await, so every action below  *)
(* is the code between two awaits.  A suspended invocation is an element   *)
(* of the bag calls, holding what the invocation captured when it was      *)
(* suspended (the arguments of the pending request).                       *)
(*                                                                         *)
(* CryptoModule (js/crypto.js) is not part of the sources at hand; encrypt *)
(* and decrypt are modelled from the specification's CipherEngine.         *)
(***************************************************************************)
EXTENDS Integers, Sequences, FiniteSets, Bags, TLC

\* ------------------------------------------------------------- bounds ----
MaxInFlight == 2        \* suspended handler invocations at one time
MaxRecordCalls == 1     \* the same, in the specification of the record handlers
MaxEncrypts == 1        \* crypto.encrypt calls in one run
MaxVaultCalls == 1     \* suspended invocations at one time while vaults are deleted
MaxPwLen == 8           \* characters typed into the new vault's master password input

\* ------------------------------------------------------------- values ----
NULL == "null"                         \* JavaScript null / undefined
Secrets == {"a", "b"}                  \* master passwords a user may type
Plaintexts == {"p"}                    \* site passwords a user may type
VaultIdPool == <<"v1", "v2">>          \* ids the 'vaults' table hands out
RowIdPool == <<"r1", "r2", "r3">>      \* ids the 'passwords' table hands out
Digits == <<"0", "1", "2", "3">>

\* texts shown to the user
MsgNone == ""
MsgEnterMaster == "Please enter your master password."
MsgIncorrect == "Incorrect master password. Please try again."
ToastUnlocked == "Vault unlocked successfully!"
ToastLoadFailed == "Failed to load passwords"
ToastCreated == "Vault created successfully!"
ToastNeedUnlock == "Please unlock the vault first."
ToastCopied == "Password copied to clipboard"
ToastDecryptFailed == "Failed to decrypt password. Check your master password."
ToastAdded == "Password added successfully"
ToastUpdated == "Password updated successfully"
ToastNeedCreate == "Please create a vault first."
ToastNeedSelect == "Please select a vault from the list."

\* ------------------------------------------------- CipherEngine (spec) ----
\* base64 text is a sequence of characters; ':' is not a base64 character
IvOf(n) == <<"i", Digits[n + 1]>>
SaltOf(n) == <<"s", Digits[n + 1]>>

\* encrypt(plaintext, secret) with the n-th draw of the CSPRNG: the ciphertext
\* is opaque and bound to the secret, the salt and the iv it was made with
encrypt(plain, secret, n) ==
    [encrypted |-> [pt |-> plain, key |-> secret, iv |-> IvOf(n), salt |-> SaltOf(n)],
     iv |-> IvOf(n), salt |-> SaltOf(n)]

\* decrypt succeeds only with the same secret, iv and salt
decryptOk(encrypted, ivBase64, saltBase64, secret) ==
    /\ encrypted.key = secret
    /\ encrypted.iv = ivBase64
    /\ encrypted.salt = saltBase64

\* ------------------------------------------------------ string helpers ----
\* String.prototype.split(':') : the pieces between the separators
RECURSIVE split(_)
split(str) ==
    IF \A i \in 1..Len(str) : str[i] # ":"
    THEN <<str>>
    ELSE LET k == CHOOSE i \in 1..Len(str) :
                      str[i] = ":" /\ \A j \in 1..(i - 1) : str[j] # ":"
         IN <<SubSeq(str, 1, k - 1)>> \o split(SubSeq(str, k + 1, Len(str)))

\* const [ivBase64, saltBase64] = (item.iv || '').split(':')
splitIv(item) ==
    LET parts == split(item.iv)
    IN [ivBase64 |-> parts[1],
        saltBase64 |-> IF Len(parts) >= 2 THEN parts[2] ELSE <<"undefined">>]

\* a fault: iv and salt packed without the separator
packIvNoSeparator(encryptedData) == encryptedData.iv \o encryptedData.salt

\* passwordData.iv = encryptedData.iv + ':' + encryptedData.salt
packIv(encryptedData) == encryptedData.iv \o <<":">> \o encryptedData.salt

\* -------------------------------------------------------------- state ----
VARIABLES
    vaults,            \* let vaults: the loaded rows of 'vaults'
    currentVaultId,    \* let currentVaultId
    currentVaultName,  \* let currentVaultName
    masterPassword,    \* let masterPassword
    passwords,         \* let passwords: the loaded rows of 'passwords'
    editTargetId,      \* let editTargetId
    deleteTargetId,    \* id of the row the delete modal is open for, or NULL
    deleteVaultTargetId, \* let deleteVaultTargetId
    newVaultMasterPassword,   \* value of the input elements.newVaultMasterPassword
    newVaultPasswordStrength, \* what the strength bar and text of that input show
    hidden,            \* which elements carry the class 'hidden'
    unlockError,       \* text of elements.unlockError ("" while it is hidden)
    toast,             \* text of the last toast
    clipboard,         \* what the page last wrote to the clipboard
    vaultUnlocked,     \* sessionStorage item 'vaultUnlocked'
    page,              \* the document the window shows
    dbVaults,          \* remote table 'vaults'
    dbPasswords,       \* remote table 'passwords', in order of creation
    rng,               \* number of crypto.encrypt calls made so far
    calls,             \* bag of the suspended handler invocations
    verified,          \* history: the value of masterPassword passed verification
    limit,             \* how many invocations may be suspended at one time
    leaked,            \* history: a master password was handed to a place other
                       \* than masterPassword and the secret of encrypt / decrypt
    lockedSince        \* history: handleLock returned and no handleUnlock began since

vars == <<vaults, currentVaultId, currentVaultName, masterPassword, passwords,
          editTargetId, deleteTargetId, deleteVaultTargetId, newVaultMasterPassword,
          newVaultPasswordStrength, hidden, unlockError, toast, clipboard, vaultUnlocked, page,
          dbVaults, dbPasswords, rng, calls, limit, verified, leaked, lockedSince>>

\* the state as one record, so that a JavaScript function is an operator from
\* the state before the call to the state after it
State ==
    [vaults |-> vaults, currentVaultId |-> currentVaultId,
     currentVaultName |-> currentVaultName, masterPassword |-> masterPassword,
     passwords |-> passwords, editTargetId |-> editTargetId,
     deleteTargetId |-> deleteTargetId,
     deleteVaultTargetId |-> deleteVaultTargetId,
     newVaultMasterPassword |-> newVaultMasterPassword,
     newVaultPasswordStrength |-> newVaultPasswordStrength, hidden |-> hidden,
     unlockError |-> unlockError, toast |-> toast, clipboard |-> clipboard,
     vaultUnlocked |-> vaultUnlocked, page |-> page, dbVaults |-> dbVaults,
     dbPasswords |-> dbPasswords, rng |-> rng, calls |-> calls,
     limit |-> limit, verified |-> verified, leaked |-> leaked,
     lockedSince |-> lockedSince]

Commit(s) ==
    /\ vaults' = s.vaults
    /\ currentVaultId' = s.currentVaultId
    /\ currentVaultName' = s.currentVaultName
    /\ masterPassword' = s.masterPassword
    /\ passwords' = s.passwords
    /\ editTargetId' = s.editTargetId
    /\ deleteTargetId' = s.deleteTargetId
    /\ deleteVaultTargetId' = s.deleteVaultTargetId
    /\ newVaultMasterPassword' = s.newVaultMasterPassword
    /\ newVaultPasswordStrength' = s.newVaultPasswordStrength
    /\ hidden' = s.hidden
    /\ unlockError' = s.unlockError
    /\ toast' = s.toast
    /\ clipboard' = s.clipboard
    /\ vaultUnlocked' = s.vaultUnlocked
    /\ page' = s.page
    /\ dbVaults' = s.dbVaults
    /\ dbPasswords' = s.dbPasswords
    /\ rng' = s.rng
    /\ calls' = s.calls
    /\ limit' = s.limit
    /\ verified' = s.verified
    /\ leaked' = s.leaked
    /\ lockedSince' = s.lockedSince

\* ------------------------------------------------ suspended invocations ----
NoCipher == [pt |-> NULL, key |-> NULL, iv |-> <<>>, salt |-> <<>>]
NoRow == [id |-> NULL, vault_id |-> NULL, encrypted_password |-> NoCipher, iv |-> <<>>]
NoData == [encrypted |-> NoCipher, iv |-> <<>>, salt |-> <<>>]

\* h: the handler; pc: the await it is suspended at; the rest is what the
\* invocation holds in locals or has passed to the pending request.
\* intr (history): what ran while a handleUnlock invocation was suspended.
NoCall ==
    [h |-> "none", pc |-> "none", cand |-> NULL, vid |-> NULL, item |-> NoRow,
     secret |-> NULL, plain |-> NULL, data |-> NoData, target |-> NULL,
     name |-> NULL, intr |-> "none"]

NewCall(h) == [NoCall EXCEPT !.h = h]

InFlight == BagCardinality(calls)

suspend(s, c) == [s EXCEPT !.calls = @ (+) SetToBag({c})]

RECURSIVE SumOver(_, _)
SumOver(B, S) ==
    IF S = {} THEN 0
    ELSE LET e == CHOOSE x \in S : TRUE IN B[e] + SumOver(B, S \ {e})

\* history: a step of handler op ran while the invocation c was suspended;
\* intr is "handleLock" when exactly one step ran and it was handleLock
Interrupted(c, op) ==
    IF c.h # "handleUnlock" THEN c
    ELSE [c EXCEPT !.intr = IF @ = "none" /\ op = "handleLock" THEN op ELSE "other"]

\* history: a step of handler op ran while the invocations of B were suspended

MarkAll(B, op) ==
    LET img == {Interrupted(c, op) : c \in DOMAIN B}
    IN [x \in img |-> SumOver(B, {c \in DOMAIN B : Interrupted(c, op) = x})]

\* -------------------------------------------------------- remote tables ----
Reverse(q) == [i \in 1..Len(q) |-> q[Len(q) + 1 - i]]

\* supabase.from('passwords').select('*').eq('vault_id', vid)
\*         .order('created_at', { ascending: false })
selectPasswords(db, vid) == Reverse(SelectSeq(db, LAMBDA r : r.vault_id = vid))

\* the row encrypt would give for plain under secret with the n-th random draw
RowOf(id, vid, plain, secret, n) ==
    LET e == encrypt(plain, secret, n)
    IN [id |-> id, vault_id |-> vid, encrypted_password |-> e.encrypted, iv |-> packIv(e)]

FirstVault == [id |-> VaultIdPool[1], name |-> "home"]

\* --------------------------------------------------- synchronous functions ----
\* classList.add('hidden') and classList.remove('hidden'); the model keeps the
\* class for the elements of Shown only
Shown == {"vaultSelectionModal", "unlockModal", "vaultContainer"}
hide(s, el) == IF el \in Shown THEN [s EXCEPT !.hidden[el] = TRUE] ELSE s
show(s, el) == IF el \in Shown THEN [s EXCEPT !.hidden[el] = FALSE] ELSE s

\* every assignment to masterPassword goes through here, to keep the history
\* variable verified: a value other than the verified one is not verified
setMasterPassword(s, v) ==
    [s EXCEPT !.masterPassword = v,
              !.verified = (v # NULL /\ v = s.masterPassword /\ s.verified)]

\* texts a user may type as a master password, in the unlock modal or in the
\* create-vault form
MasterTexts == Secrets \cup {"short"}

\* history: the texts args are handed to storage, a query, the console or a
\* display
surfaces(s, args) == [s EXCEPT !.leaked = @ \/ args \cap MasterTexts # {}]

\* a fault: the log line carries the master password along with the error
consoleErrorWithSecret(s, error) == surfaces(s, {error, s.masterPassword})

\* console.error(label, error)
consoleError(s, error) == surfaces(s, {error})

showToast(s, message) == surfaces([s EXCEPT !.toast = message], {message})

\* showCreateVaultError and showAddError write message into the form's error line
showCreateVaultError(s, message) == surfaces(s, {message})
showAddError(s, message) == surfaces(s, {message})

\* sessionStorage.setItem('vaultUnlocked', value)
setItem(s, value) == surfaces([s EXCEPT !.vaultUnlocked = value], {value})

\* a supabase query built from args is sent
sends(s, args) == surfaces(s, args)

\* a fault: classList.toggle where classList.remove is meant
showVaultSelectionModalToggles(s) ==
    LET s1 == hide([s EXCEPT !.hidden.vaultSelectionModal = ~@], "vaultContainer")
    IN [setMasterPassword(s1, NULL) EXCEPT !.passwords = <<>>]

showVaultSelectionModal(s) ==
    LET s1 == hide(show(s, "vaultSelectionModal"), "vaultContainer")
    IN [setMasterPassword(s1, NULL) EXCEPT !.passwords = <<>>]

hideVaultSelectionModal(s) == hide(s, "vaultSelectionModal")

\* the characters of the keyboard, one or two of each class
Chars == {"a", "A", "1", "!"}
Lower == {"a"}
Upper == {"A"}
Digit == {"1"}

\* /[A-Z]/.test, /[0-9]/.test, /[^A-Za-z0-9]/.test, and the test of [a-z]
\* that the scorer does not make
hasUpper(password) == \E i \in 1..Len(password) : password[i] \in Upper
hasDigit(password) == \E i \in 1..Len(password) : password[i] \in Digit
hasSymbol(password) ==
    \E i \in 1..Len(password) : password[i] \notin Upper \cup Lower \cup Digit
hasLower(password) == \E i \in 1..Len(password) : password[i] \in Lower

PointIf(test) == IF test THEN 1 ELSE 0

\* a fault: an uppercase letter counts only while there is no digit, and
\* digits do not count
strengthOfUpperUnlessDigit(password) ==
    PointIf(Len(password) >= 8) + PointIf(hasUpper(password) /\ ~hasDigit(password))
        + PointIf(hasSymbol(password))

\* let strength of updateNewVaultPasswordStrength and updatePasswordStrength
strengthOf(password) ==
    PointIf(Len(password) >= 8) + PointIf(hasUpper(password))
        + PointIf(hasDigit(password)) + PointIf(hasSymbol(password))

strengthLevels ==
    [n \in 0..4 |->
        [strength |-> n,
         width |-> 25 * n,
         label |-> <<"", "Weak", "Fair", "Strong", "Very Strong">>[n + 1]]]

updateNewVaultPasswordStrength(s) ==
    [s EXCEPT !.newVaultPasswordStrength = strengthLevels[strengthOf(s.newVaultMasterPassword)]]

\* the 'input' event of the new vault's master password input, with the
\* text the input holds after the keystroke
inputNewVaultMasterPassword(s, value) ==
    updateNewVaultPasswordStrength([s EXCEPT !.newVaultMasterPassword = value])

showCreateVaultModal(s) ==
    LET s1 == show(hideVaultSelectionModal(s), "createVaultModal")
    IN updateNewVaultPasswordStrength([s1 EXCEPT !.newVaultMasterPassword = <<>>])

hideCreateVaultModal(s) == showVaultSelectionModal(hide(s, "createVaultModal"))

showUnlockModal(s) == [show(s, "unlockModal") EXCEPT !.unlockError = MsgNone]

\* a fault: the unlock modal is left open
closeUnlockModalStaysOpen(s) == s

closeUnlockModal(s) == hide(s, "unlockModal")

showUnlockError(s, message) == surfaces([s EXCEPT !.unlockError = message], {message})

handleVaultListClick(s, vault) ==
    [s EXCEPT !.currentVaultId = vault.id, !.currentVaultName = vault.name]

handleOpenExistingVaultClick(s) ==
    IF Len(s.vaults) = 0 THEN showToast(s, ToastNeedCreate)
    ELSE IF s.currentVaultId = NULL THEN showToast(s, ToastNeedSelect)
    ELSE LET found == SelectSeq(s.vaults, LAMBDA v : v.id = s.currentVaultId)
             s1 == IF Len(found) > 0
                   THEN [s EXCEPT !.currentVaultName = found[1].name] ELSE s
         IN showUnlockModal(hideVaultSelectionModal(s1))

\* the click listener of backToVaultSelectionBtn
backToVaultSelection(s) == showVaultSelectionModal(closeUnlockModal(s))

\* a fault: a lock that clears the cached rows and the selection only
handleLockKeepsSecret(s) ==
    LET s1 == [s EXCEPT !.passwords = <<>>, !.currentVaultId = NULL,
                        !.currentVaultName = ""]
    IN [hide(show(s1, "vaultSelectionModal"), "vaultContainer") EXCEPT !.lockedSince = TRUE]

handleLock(s) ==
    LET s1 == [setMasterPassword(s, NULL) EXCEPT !.passwords = <<>>,
                                                 !.currentVaultId = NULL,
                                                 !.currentVaultName = ""]
    IN [showVaultSelectionModal(hide(s1, "vaultContainer")) EXCEPT !.lockedSince = TRUE]

\* ------------------------------------------------------------ loadPasswords ----
\* loadPasswords up to its await: TRUE when it has sent the select
loadPasswordsSends(s) == s.currentVaultId # NULL

\* loadPasswords after its await: res is "ok" or "error"
loadPasswordsDone(s, vid, res) ==
    IF res = "ok"
    THEN [s EXCEPT !.passwords = selectPasswords(s.dbPasswords, vid)]
    ELSE showToast(consoleError(s, res), ToastLoadFailed)

\* ------------------------------------------------------------- handleUnlock ----
\* handleUnlock from the return of loadPasswords to its next await or its end
handleUnlockVerify(s, c) ==
    IF Len(s.passwords) > 0
    THEN LET d == [c EXCEPT !.pc = "decrypt", !.item = s.passwords[1],
                            !.secret = s.masterPassword]
         IN suspend(s, d)
    ELSE LET s1 == [setItem(s, "1") EXCEPT !.verified = (s.masterPassword # NULL)]
         IN showToast(s1, ToastUnlocked)

\* a fault: the candidate is stored before it is tested for being empty
handleUnlockStoresFirst(s, mp) ==
    LET c == [NewCall("handleUnlock") EXCEPT !.cand = mp]
        s0 == setMasterPassword([s EXCEPT !.lockedSince = FALSE], mp)
    IN IF mp = ""
       THEN showUnlockError(s0, MsgEnterMaster)
       ELSE LET s1 == show(closeUnlockModal(s0), "vaultContainer")
            IN IF loadPasswordsSends(s1)
               THEN LET d == [c EXCEPT !.pc = "load", !.vid = s1.currentVaultId]
                    IN suspend(sends(s1, {d.vid}), d)
               ELSE handleUnlockVerify(s1, c)

\* handleUnlock up to its first await; mp is the text of masterPasswordInput
handleUnlock(s, mp) ==
    LET c == [NewCall("handleUnlock") EXCEPT !.cand = mp]
        s0 == [s EXCEPT !.lockedSince = FALSE]
    IN IF mp = ""
       THEN showUnlockError(s0, MsgEnterMaster)
       ELSE LET s1 == show(closeUnlockModal(setMasterPassword(s0, mp)), "vaultContainer")
            IN IF loadPasswordsSends(s1)
               THEN LET d == [c EXCEPT !.pc = "load", !.vid = s1.currentVaultId]
                    IN suspend(sends(s1, {d.vid}), d)
               ELSE handleUnlockVerify(s1, c)

\* the select of loadPasswords answers
handleUnlockLoaded(s, c, res) ==
    handleUnlockVerify(loadPasswordsDone(s, c.vid, res), c)

\* a fault: the catch of the verification keeps the rejected candidate
handleUnlockDecryptedKeepsSecret(s, c) ==
    LET iv == splitIv(c.item)
    IN IF decryptOk(c.item.encrypted_password, iv.ivBase64, iv.saltBase64, c.secret)
       THEN LET s1 == [setItem(s, "1") EXCEPT
                           !.verified = (@ \/ s.masterPassword = c.secret)]
            IN showToast(s1, ToastUnlocked)
       ELSE LET s1 == hide(s, "vaultContainer")
            IN showUnlockError(showUnlockModal(s1), MsgIncorrect)

\* a fault: a malformed iv field is reported as such
handleUnlockDecryptedTellsCause(s, c) ==
    LET iv == splitIv(c.item)
    IN IF decryptOk(c.item.encrypted_password, iv.ivBase64, iv.saltBase64, c.secret)
       THEN LET s1 == [setItem(s, "1") EXCEPT
                           !.verified = (@ \/ s.masterPassword = c.secret)]
            IN showToast(s1, ToastUnlocked)
       ELSE LET s1 == hide(setMasterPassword(s, NULL), "vaultContainer")
            IN showUnlockError(showUnlockModal(s1),
                               IF Len(split(c.item.iv)) < 2
                               THEN "Vault data is corrupted." ELSE MsgIncorrect)

\* crypto.decrypt settles
handleUnlockDecrypted(s, c) ==
    LET iv == splitIv(c.item)
    IN IF decryptOk(c.item.encrypted_password, iv.ivBase64, iv.saltBase64, c.secret)
       THEN LET s1 == [setItem(s, "1") EXCEPT
                           !.verified = (@ \/ s.masterPassword = c.secret)]
            IN showToast(s1, ToastUnlocked)
       ELSE LET s1 == hide(setMasterPassword(s, NULL), "vaultContainer")
                s2 == showUnlockError(showUnlockModal(s1), MsgIncorrect)
            IN s2

\* ------------------------------------------------------- add / edit modal ----
openAddModal(s, item) == [show(s, "addModal") EXCEPT !.editTargetId = item.id]

\* a fault: closing the form also drops the secret
closeAddModalLocks(s) ==
    [hide(s, "addModal") EXCEPT !.editTargetId = NULL, !.masterPassword = NULL]

closeAddModal(s) == [hide(s, "addModal") EXCEPT !.editTargetId = NULL]

editPasswordAction(s, id) ==
    LET found == SelectSeq(s.passwords, LAMBDA r : r.id = id)
    IN IF Len(found) = 0 THEN s ELSE openAddModal(s, found[1])

\* ------------------------------------------------------- handleSavePassword ----
\* from the building of passwordData to the await of the update or insert
handleSavePasswordWrite(s, c) ==
    LET d == [c EXCEPT !.pc = "write", !.vid = s.currentVaultId,
                       !.target = s.editTargetId]
    IN suspend(sends(s, {d.vid, d.target}), d)

\* handleSavePassword up to its first await; fieldsOk says that site name and
\* username are filled in, plainPassword is the text of passwordInput; while
\* the call waits for crypto.encrypt its vid and target are the vault and the
\* record it was started for, the write reads both anew
handleSavePassword(s, fieldsOk, plainPassword) ==
    LET c == [NewCall("handleSavePassword") EXCEPT !.plain = plainPassword]
    IN IF s.currentVaultId = NULL
       THEN showAddError(s, "Please select and unlock a vault first.")
       ELSE IF ~fieldsOk
       THEN showAddError(s, "Site name and username are required.")
       ELSE IF s.editTargetId = NULL /\ plainPassword = ""
       THEN showAddError(s, "Password is required for new entries.")
       ELSE IF plainPassword # ""
       THEN LET d == [c EXCEPT !.pc = "encrypt", !.secret = s.masterPassword,
                               !.vid = s.currentVaultId, !.target = s.editTargetId,
                               !.data = encrypt(plainPassword, s.masterPassword, s.rng + 1)]
            IN suspend([s EXCEPT !.rng = @ + 1], d)
       ELSE handleSavePasswordWrite(s, c)

\* crypto.encrypt settles
handleSavePasswordEncrypted(s, c) ==
    handleSavePasswordWrite(s, c)

\* the table after .update(passwordData).eq('id', target)
\* a fault: the update writes the new ciphertext and keeps the stored iv field
updateRowCipherOnly(db, c) ==
    [i \in 1..Len(db) |->
        IF db[i].id # c.target THEN db[i]
        ELSE IF c.data = NoData THEN [db[i] EXCEPT !.vault_id = c.vid]
        ELSE [db[i] EXCEPT !.vault_id = c.vid,
                           !.encrypted_password = c.data.encrypted]]

updateRow(db, c) ==
    [i \in 1..Len(db) |->
        IF db[i].id # c.target THEN db[i]
        ELSE IF c.data = NoData THEN [db[i] EXCEPT !.vault_id = c.vid]
        ELSE [db[i] EXCEPT !.vault_id = c.vid,
                           !.encrypted_password = c.data.encrypted,
                           !.iv = packIv(c.data)]]

\* a fault: the row carries the text of the password input
insertRowPlain(db, c) ==
    Append(db, [id |-> RowIdPool[Len(db) + 1], vault_id |-> c.vid,
                encrypted_password |-> [NoCipher EXCEPT !.pt = c.plain], iv |-> <<>>])

\* the table after .insert([passwordData])
insertRow(db, c) ==
    Append(db, [id |-> RowIdPool[Len(db) + 1], vault_id |-> c.vid,
                encrypted_password |-> c.data.encrypted, iv |-> packIv(c.data)])

\* the update or insert answers; res is "ok" or "error"
handleSavePasswordWritten(s, c, res) ==
    IF res = "error"
    THEN showAddError(consoleError(s, res), "Failed to save password")
    ELSE LET s1 == IF c.target # NULL
                   THEN showToast([s EXCEPT !.dbPasswords = updateRow(@, c)], ToastUpdated)
                   ELSE showToast([s EXCEPT !.dbPasswords = insertRow(@, c)], ToastAdded)
         IN IF loadPasswordsSends(s1)
            THEN LET d == [c EXCEPT !.pc = "reload", !.vid = s1.currentVaultId]
                 IN suspend(sends(s1, {d.vid}), d)
            ELSE closeAddModal(s1)

\* the select of the closing loadPasswords answers
handleSavePasswordReloaded(s, c, res) ==
    closeAddModal(loadPasswordsDone(s, c.vid, res))

\* ------------------------------------------------------- showPasswordAction ----
copyToClipboard(s, text) == [s EXCEPT !.clipboard = text]

showPasswordAction(s, id) ==
    LET found == SelectSeq(s.passwords, LAMBDA r : r.id = id)
        c == NewCall("showPasswordAction")
    IN IF Len(found) = 0
       THEN s
       ELSE IF s.masterPassword = NULL
       THEN showToast(s, ToastNeedUnlock)
       ELSE LET d == [c EXCEPT !.pc = "decrypt", !.item = found[1],
                               !.secret = s.masterPassword]
            IN suspend(s, d)

\* a fault: a failed decrypt of one record locks the session, as the catch of
\* handleUnlock does
showPasswordActionDecryptedLocks(s, c) ==
    LET iv == splitIv(c.item)
    IN IF decryptOk(c.item.encrypted_password, iv.ivBase64, iv.saltBase64, c.secret)
       THEN showToast(copyToClipboard(s, c.item.encrypted_password.pt), ToastCopied)
       ELSE showToast(setMasterPassword(s, NULL), ToastDecryptFailed)

\* crypto.decrypt settles
showPasswordActionDecrypted(s, c) ==
    LET iv == splitIv(c.item)
    IN IF decryptOk(c.item.encrypted_password, iv.ivBase64, iv.saltBase64, c.secret)
       THEN showToast(copyToClipboard(s, c.item.encrypted_password.pt), ToastCopied)
       ELSE showToast(consoleError(s, "CryptoError"), ToastDecryptFailed)

\* copyUsername; the rows of the model carry one username
Username == "user"

copyUsername(s, id) ==
    LET found == SelectSeq(s.passwords, LAMBDA r : r.id = id)
    IN IF Len(found) = 0 THEN s
       ELSE showToast(copyToClipboard(s, Username), "Username copied")

\* handleSearch renders a filtered list and assigns no variable of the module
handleSearch(s) == s

\* ------------------------------------------------------ handleConfirmDelete ----
deletePasswordAction(s, id) == [show(s, "deleteModal") EXCEPT !.deleteTargetId = id]

closeDeleteModal(s) == [hide(s, "deleteModal") EXCEPT !.deleteTargetId = NULL]

\* the table after .delete().eq('id', target): the row is gone for every select,
\* its id is not handed out again
deleteRow(db, target) ==
    [i \in 1..Len(db) |->
        IF db[i].id = target THEN [db[i] EXCEPT !.vault_id = "deleted"] ELSE db[i]]

\* handleConfirmDelete up to its first await
handleConfirmDelete(s) ==
    IF s.deleteTargetId = NULL THEN s
    ELSE LET d == [NewCall("handleConfirmDelete") EXCEPT
                       !.pc = "delete", !.target = s.deleteTargetId]
         IN suspend(sends(s, {d.target}), d)

\* the delete answers; res is "ok" or "error"
handleConfirmDeleteDone(s, c, res) ==
    IF res = "error"
    THEN showToast(consoleError(s, res), "Failed to delete password")
    ELSE LET s1 == showToast([s EXCEPT !.dbPasswords = deleteRow(@, c.target)],
                             "Password deleted")
         IN IF loadPasswordsSends(s1)
            THEN LET d == [c EXCEPT !.pc = "reload", !.vid = s1.currentVaultId]
                 IN suspend(sends(s1, {d.vid}), d)
            ELSE closeDeleteModal(s1)

\* the select of the closing loadPasswords answers
handleConfirmDeleteReloaded(s, c, res) ==
    closeDeleteModal(loadPasswordsDone(s, c.vid, res))

\* the vault list's delete button of one vault
showDeleteVaultModal(s, vaultId) ==
    show([s EXCEPT !.deleteVaultTargetId = vaultId], "deleteVaultModal")

closeDeleteVaultModal(s) ==
    [hide(s, "deleteVaultModal") EXCEPT !.deleteVaultTargetId = NULL]

\* the table after .delete().eq('vault_id', vid)
deleteRecordsOf(db, vid) ==
    [i \in 1..Len(db) |->
        IF db[i].vault_id = vid THEN [db[i] EXCEPT !.vault_id = "deleted"] ELSE db[i]]

\* the table after .delete().eq('id', vid)
deleteVaultRow(db, vid) == SelectSeq(db, LAMBDA v : v.id # vid)

\* the catch of handleConfirmDeleteVault
handleConfirmDeleteVaultFailed(s, error) ==
    showToast(consoleError(s, error), "Kasa silinemedi")

\* handleConfirmDeleteVault up to its first await; target is the vault whose
\* records the request deletes
handleConfirmDeleteVault(s) ==
    IF s.deleteVaultTargetId = NULL THEN s
    ELSE LET d == [NewCall("handleConfirmDeleteVault") EXCEPT
                       !.pc = "records", !.target = s.deleteVaultTargetId]
         IN suspend(sends(s, {d.target}), d)

\* the delete of the records answers; vid is the vault whose row the next
\* request deletes
handleConfirmDeleteVaultRecords(s, c, res) ==
    IF res = "error" THEN handleConfirmDeleteVaultFailed(s, res)
    ELSE LET s1 == [s EXCEPT !.dbPasswords = deleteRecordsOf(@, c.target)]
             d == [c EXCEPT !.pc = "row", !.vid = s1.deleteVaultTargetId]
         IN suspend(sends(s1, {d.vid}), d)

\* the delete of the vault row answers (the toast text in ASCII spelling)
handleConfirmDeleteVaultRow(s, c, res) ==
    IF res = "error" THEN handleConfirmDeleteVaultFailed(s, res)
    ELSE LET s1 == [s EXCEPT !.dbVaults = deleteVaultRow(@, c.vid),
                             !.vaults = deleteVaultRow(@, s.deleteVaultTargetId)]
             s2 == IF s1.currentVaultId = s1.deleteVaultTargetId
                   THEN [s1 EXCEPT !.currentVaultId = NULL, !.currentVaultName = ""]
                   ELSE s1
         IN showToast(closeDeleteVaultModal(s2), "Kasa basariyla silindi")

\* -------------------------------------------------------- handleCreateVault ----
\* password.length of the texts a user may type into the master password field
PasswordLength(password) ==
    IF password = "" THEN 0 ELSE IF password = "short" THEN 5 ELSE 8

handleCreateVault(s, name, password, confirmPassword) ==
    LET c == [NewCall("handleCreateVault") EXCEPT !.name = name, !.cand = password]
    IN IF name = ""
       THEN showCreateVaultError(s, "Please enter a vault name.")
       ELSE IF password = ""
       THEN showCreateVaultError(s, "Please enter a master password.")
       ELSE IF PasswordLength(password) < 8
       THEN showCreateVaultError(s, "Master password must be at least 8 characters.")
       ELSE IF password # confirmPassword
       THEN showCreateVaultError(s, "Passwords do not match.")
       ELSE LET d == [c EXCEPT !.pc = "insert"]
            IN suspend(sends(s, {name}), d)

\* the insert into 'vaults' answers; res is "ok" or "error"
handleCreateVaultInserted(s, c, res) ==
    IF res = "error"
    THEN showCreateVaultError(consoleError(s, res),
                              "Failed to create vault. Please try again.")
    ELSE LET data == [id |-> VaultIdPool[Len(s.dbVaults) + 1], name |-> c.name]
             s1 == [s EXCEPT !.dbVaults = Append(@, data),
                             !.vaults = Append(@, data),
                             !.currentVaultId = data.id,
                             !.currentVaultName = data.name]
             s2 == setMasterPassword(s1, c.cand)
             s3 == hideVaultSelectionModal(hideCreateVaultModal(s2))
             s4 == show(s3, "vaultContainer")
             d == [c EXCEPT !.pc = "load", !.vid = s4.currentVaultId]
         IN suspend(sends(s4, {d.vid}), d)

\* the select of loadPasswords answers
handleCreateVaultLoaded(s, c, res) ==
    showToast(loadPasswordsDone(s, c.vid, res), ToastCreated)

\* ------------------------------------------------------------- handleLogout ----
handleLogout(s) ==
    LET d == [NewCall("handleLogout") EXCEPT !.pc = "signOut"]
    IN suspend(s, d)

\* supabase.auth.signOut answers; on success the window leaves the page, which
\* ends every suspended invocation and discards the module's variables
handleLogoutDone(s, c, res) ==
    IF res = "error"
    THEN showToast(consoleError(s, res), "Failed to sign out")
    ELSE LET s1 == [setMasterPassword(s, NULL) EXCEPT
                        !.vaultUnlocked = NULL, !.page = "index.html",
                        !.calls = EmptyBag, !.passwords = <<>>, !.vaults = <<>>,
                        !.currentVaultId = NULL, !.currentVaultName = "",
                        !.editTargetId = NULL, !.deleteTargetId = NULL]
         IN s1

\* --------------------------------------------------------------- initial ----
\* the state when init() has returned: the user is signed in, loadVaults has
\* filled vaults and showVaultSelectionModal has run.  The account has one
\* vault, empty or holding one record encrypted under the secret "a".
InitOf(n, rows, tables) ==
    /\ limit = n
    /\ dbVaults = rows
    /\ dbPasswords \in tables
    /\ vaults = dbVaults
    /\ currentVaultId = NULL
    /\ currentVaultName = ""
    /\ masterPassword = NULL
    /\ passwords = <<>>
    /\ editTargetId = NULL
    /\ deleteTargetId = NULL
    /\ deleteVaultTargetId = NULL
    /\ newVaultMasterPassword = <<>>
    /\ newVaultPasswordStrength = strengthLevels[0]
    /\ hidden = [vaultSelectionModal |-> FALSE, unlockModal |-> TRUE,
                 vaultContainer |-> TRUE]
    /\ unlockError = MsgNone
    /\ toast = ""
    /\ clipboard = NULL
    /\ vaultUnlocked = NULL
    /\ page = "vault.html"
    /\ rng = 0
    /\ calls = EmptyBag
    /\ verified = FALSE
    /\ leaked = FALSE
    /\ lockedSince = FALSE

\* the record a vault saved under the secret "a" holds
FirstRow == RowOf(RowIdPool[1], FirstVault.id, "p", "a", 0)

\* the account has one vault
InitWith(n, tables) == InitOf(n, <<FirstVault>>, tables)

Init == InitWith(MaxInFlight, {<<>>, <<FirstRow>>})

InitRecords == InitWith(MaxRecordCalls, {<<>>, <<FirstRow>>})

\* the stored record as saved, and as it reads after someone altered the
\* ciphertext, the iv, the salt, or the iv field (no separator, empty)
SampleRows ==
    {FirstRow,
     [FirstRow EXCEPT !.encrypted_password.pt = "garbled", !.encrypted_password.key = "none"],
     [FirstRow EXCEPT !.iv = IvOf(1) \o <<":">> \o SaltOf(0)],
     [FirstRow EXCEPT !.iv = IvOf(0) \o <<":">> \o SaltOf(1)],
     [FirstRow EXCEPT !.iv = IvOf(0) \o SaltOf(0)],
     [FirstRow EXCEPT !.iv = <<>>]}

InitTamper == InitWith(MaxInFlight, {<<row>> : row \in SampleRows})

SecondVault == [id |-> VaultIdPool[2], name |-> "work"]

\* one record in each of the two vaults
VaultRows == <<FirstRow, RowOf(RowIdPool[2], SecondVault.id, "p", "b", 0)>>

\* the account has two vaults with one record each
InitVaults == InitOf(MaxVaultCalls, <<FirstVault, SecondVault>>, {VaultRows})

\* the account's vault is empty
InitEmpty == InitWith(MaxRecordCalls, {<<>>})

\* --------------------------------------------------------------- actions ----
\* the state a step of handler op starts from: the step is noted in the
\* history of the invocations that stay suspended across it
Before(op) == [State EXCEPT !.calls = MarkAll(calls, op), !.toast = ""]

\* the same for the step that resumes the suspended invocation c
Resumed(c, op) == [State EXCEPT !.calls = MarkAll(calls (-) SetToBag({c}), op), !.toast = ""]

\* what a user may have typed into the create-vault form: a valid form, an
\* empty name, an empty password, a short password, a confirmation that differs
CreateInputs ==
    {[name |-> "work", password |-> "b", confirmPassword |-> "b"],
     [name |-> "", password |-> "b", confirmPassword |-> "b"],
     [name |-> "work", password |-> "", confirmPassword |-> ""],
     [name |-> "work", password |-> "short", confirmPassword |-> "short"],
     [name |-> "work", password |-> "b", confirmPassword |-> "a"]}

Suspended(h, pc) == {c \in BagToSet(calls) : c.h = h /\ c.pc = pc}

Responses == {"ok", "error"}

HandleVaultListClick ==
    /\ page = "vault.html"
    /\ \E i \in 1..Len(vaults) :
          Commit(handleVaultListClick(Before("handleVaultListClick"), vaults[i]))

HandleOpenExistingVaultClick ==
    /\ page = "vault.html"
    /\ Commit(handleOpenExistingVaultClick(Before("handleOpenExistingVaultClick")))

BackToVaultSelection ==
    /\ page = "vault.html"
    /\ Commit(backToVaultSelection(Before("backToVaultSelection")))

ShowCreateVaultModal ==
    /\ page = "vault.html"
    /\ Commit(showCreateVaultModal(Before("showCreateVaultModal")))

HideCreateVaultModal ==
    /\ page = "vault.html"
    /\ Commit(hideCreateVaultModal(Before("hideCreateVaultModal")))

HandleCreateVault ==
    /\ page = "vault.html"
    /\ InFlight < limit
    /\ Len(dbVaults) < Len(VaultIdPool)
    /\ \E in \in CreateInputs :
          Commit(handleCreateVault(Before("handleCreateVault"), in.name, in.password,
                                   in.confirmPassword))

HandleCreateVaultInserted ==
    /\ page = "vault.html"
    /\ \E c \in Suspended("handleCreateVault", "insert"), res \in Responses :
          /\ res = "ok" => Len(dbVaults) < Len(VaultIdPool)
          /\ Commit(handleCreateVaultInserted(Resumed(c, "handleCreateVault"), c, res))

HandleCreateVaultLoaded ==
    /\ page = "vault.html"
    /\ \E c \in Suspended("handleCreateVault", "load"), res \in Responses :
          Commit(handleCreateVaultLoaded(Resumed(c, "handleCreateVault"), c, res))

HandleUnlock ==
    /\ page = "vault.html"
    /\ InFlight < limit
    /\ \E mp \in Secrets \cup {""} :
          Commit(handleUnlock(Before("handleUnlock"), mp))

HandleUnlockLoaded ==
    /\ page = "vault.html"
    /\ \E c \in Suspended("handleUnlock", "load"), res \in Responses :
          Commit(handleUnlockLoaded(Resumed(c, "handleUnlock"), c, res))

HandleUnlockDecrypted ==
    /\ page = "vault.html"
    /\ \E c \in Suspended("handleUnlock", "decrypt") :
          Commit(handleUnlockDecrypted(Resumed(c, "handleUnlock"), c))

HandleLock ==
    /\ page = "vault.html"
    /\ Commit(handleLock(Before("handleLock")))

OpenAddModal ==
    /\ page = "vault.html"
    /\ Commit(openAddModal(Before("openAddModal"), NoRow))

CloseAddModal ==
    /\ page = "vault.html"
    /\ Commit(closeAddModal(Before("closeAddModal")))

EditPasswordAction ==
    /\ page = "vault.html"
    /\ \E i \in 1..Len(passwords) :
          Commit(editPasswordAction(Before("editPasswordAction"), passwords[i].id))

HandleSavePassword ==
    /\ page = "vault.html"
    /\ InFlight < limit
    /\ \E fieldsOk \in BOOLEAN, plainPassword \in Plaintexts \cup {""} :
          /\ plainPassword # "" => rng < MaxEncrypts
          /\ Commit(handleSavePassword(Before("handleSavePassword"), fieldsOk, plainPassword))

HandleSavePasswordEncrypted ==
    /\ page = "vault.html"
    /\ \E c \in Suspended("handleSavePassword", "encrypt") :
          Commit(handleSavePasswordEncrypted(Resumed(c, "handleSavePassword"), c))

HandleSavePasswordWritten ==
    /\ page = "vault.html"
    /\ \E c \in Suspended("handleSavePassword", "write"), res \in Responses :
          Commit(handleSavePasswordWritten(Resumed(c, "handleSavePassword"), c, res))

HandleSavePasswordReloaded ==
    /\ page = "vault.html"
    /\ \E c \in Suspended("handleSavePassword", "reload"), res \in Responses :
          Commit(handleSavePasswordReloaded(Resumed(c, "handleSavePassword"), c, res))

ShowPasswordAction ==
    /\ page = "vault.html"
    /\ InFlight < limit
    /\ \E i \in 1..Len(RowIdPool) :
          Commit(showPasswordAction(Before("showPasswordAction"), RowIdPool[i]))

ShowPasswordActionDecrypted ==
    /\ page = "vault.html"
    /\ \E c \in Suspended("showPasswordAction", "decrypt") :
          Commit(showPasswordActionDecrypted(Resumed(c, "showPasswordAction"), c))

HandleLogout ==
    /\ page = "vault.html"
    /\ InFlight < limit
    /\ Commit(handleLogout(Before("handleLogout")))

HandleLogoutDone ==
    /\ page = "vault.html"
    /\ \E c \in Suspended("handleLogout", "signOut"), res \in Responses :
          Commit(handleLogoutDone(Resumed(c, "handleLogout"), c, res))

CopyUsername ==
    /\ page = "vault.html"
    /\ \E i \in 1..Len(passwords) :
          Commit(copyUsername(Before("copyUsername"), passwords[i].id))

HandleSearch ==
    /\ page = "vault.html"
    /\ Commit(handleSearch(Before("handleSearch")))

DeletePasswordAction ==
    /\ page = "vault.html"
    /\ \E i \in 1..Len(passwords) :
          Commit(deletePasswordAction(Before("deletePasswordAction"), passwords[i].id))

CloseDeleteModal ==
    /\ page = "vault.html"
    /\ Commit(closeDeleteModal(Before("closeDeleteModal")))

HandleConfirmDelete ==
    /\ page = "vault.html"
    /\ InFlight < limit
    /\ Commit(handleConfirmDelete(Before("handleConfirmDelete")))

HandleConfirmDeleteDone ==
    /\ page = "vault.html"
    /\ \E c \in Suspended("handleConfirmDelete", "delete"), res \in Responses :
          Commit(handleConfirmDeleteDone(Resumed(c, "handleConfirmDelete"), c, res))

HandleConfirmDeleteReloaded ==
    /\ page = "vault.html"
    /\ \E c \in Suspended("handleConfirmDelete", "reload"), res \in Responses :
          Commit(handleConfirmDeleteReloaded(Resumed(c, "handleConfirmDelete"), c, res))

Next ==
    \/ HandleVaultListClick
    \/ HandleOpenExistingVaultClick
    \/ BackToVaultSelection
    \/ ShowCreateVaultModal
    \/ HideCreateVaultModal
    \/ HandleCreateVault
    \/ HandleCreateVaultInserted
    \/ HandleCreateVaultLoaded
    \/ HandleUnlock
    \/ HandleUnlockLoaded
    \/ HandleUnlockDecrypted
    \/ HandleLock
    \/ HandleLogout
    \/ HandleLogoutDone

Spec == Init /\ [][Next]_vars

\* the record handlers of an opened vault, with the handlers that open and lock
\* it, one invocation suspended at a time
NextRecords ==
    \/ HandleVaultListClick
    \/ HandleOpenExistingVaultClick
    \/ HandleUnlock
    \/ HandleUnlockLoaded
    \/ HandleUnlockDecrypted
    \/ HandleLock
    \/ OpenAddModal
    \/ CloseAddModal
    \/ EditPasswordAction
    \/ HandleSavePassword
    \/ HandleSavePasswordEncrypted
    \/ HandleSavePasswordWritten
    \/ HandleSavePasswordReloaded
    \/ ShowPasswordAction
    \/ ShowPasswordActionDecrypted
    \/ CopyUsername
    \/ HandleSearch

SpecRecords == InitRecords /\ [][NextRecords]_vars

\* a character is typed at the end of the master password input
InputChar ==
    /\ page = "vault.html"
    /\ Len(newVaultMasterPassword) < MaxPwLen
    /\ \E ch \in Chars :
          Commit(inputNewVaultMasterPassword(Before("updateNewVaultPasswordStrength"),
                                             Append(newVaultMasterPassword, ch)))

\* the last character is deleted
InputBackspace ==
    /\ page = "vault.html"
    /\ Len(newVaultMasterPassword) > 0
    /\ Commit(inputNewVaultMasterPassword(Before("updateNewVaultPasswordStrength"),
              SubSeq(newVaultMasterPassword, 1, Len(newVaultMasterPassword) - 1)))

\* one character is selected and typed over
InputReplace ==
    /\ page = "vault.html"
    /\ \E i \in 1..Len(newVaultMasterPassword), ch \in Chars :
          /\ ch # newVaultMasterPassword[i]
          /\ Commit(inputNewVaultMasterPassword(Before("updateNewVaultPasswordStrength"),
                    [newVaultMasterPassword EXCEPT ![i] = ch]))

\* typing in the create-vault modal
NextStrength ==
    \/ ShowCreateVaultModal
    \/ InputChar
    \/ InputBackspace
    \/ InputReplace

SpecStrength == InitEmpty /\ [][NextStrength]_vars

ShowDeleteVaultModal ==
    /\ page = "vault.html"
    /\ \E i \in 1..Len(vaults) :
          Commit(showDeleteVaultModal(Before("showDeleteVaultModal"), vaults[i].id))

CloseDeleteVaultModal ==
    /\ page = "vault.html"
    /\ Commit(closeDeleteVaultModal(Before("closeDeleteVaultModal")))

HandleConfirmDeleteVault ==
    /\ page = "vault.html"
    /\ InFlight < limit
    /\ Commit(handleConfirmDeleteVault(Before("handleConfirmDeleteVault")))

HandleConfirmDeleteVaultRecords ==
    /\ page = "vault.html"
    /\ \E c \in Suspended("handleConfirmDeleteVault", "records"), res \in Responses :
          Commit(handleConfirmDeleteVaultRecords(Resumed(c, "handleConfirmDeleteVault"), c, res))

HandleConfirmDeleteVaultRow ==
    /\ page = "vault.html"
    /\ \E c \in Suspended("handleConfirmDeleteVault", "row"), res \in Responses :
          Commit(handleConfirmDeleteVaultRow(Resumed(c, "handleConfirmDeleteVault"), c, res))

\* selecting, unlocking, locking and deleting vaults
NextVaults ==
    \/ HandleVaultListClick
    \/ HandleOpenExistingVaultClick
    \/ HandleUnlock
    \/ HandleUnlockLoaded
    \/ HandleUnlockDecrypted
    \/ HandleLock
    \/ ShowDeleteVaultModal
    \/ CloseDeleteVaultModal
    \/ HandleConfirmDeleteVault
    \/ HandleConfirmDeleteVaultRecords
    \/ HandleConfirmDeleteVaultRow

SpecVaults == InitVaults /\ [][NextVaults]_vars

\* opening and locking a vault whose sample record may have been altered
NextTamper ==
    \/ HandleVaultListClick
    \/ HandleOpenExistingVaultClick
    \/ BackToVaultSelection
    \/ HandleUnlock
    \/ HandleUnlockLoaded
    \/ HandleUnlockDecrypted
    \/ HandleLock

SpecTamper == InitTamper /\ [][NextTamper]_vars

\* the clicks are handled: a handler that can run does run
SpecRecordsFair == SpecRecords /\ WF_vars(NextRecords)

\* the same handlers with the deletion of records, from an empty vault
NextDelete ==
    \/ NextRecords
    \/ DeletePasswordAction
    \/ CloseDeleteModal
    \/ HandleConfirmDelete
    \/ HandleConfirmDeleteDone
    \/ HandleConfirmDeleteReloaded

SpecDelete == InitEmpty /\ [][NextDelete]_vars

\* ================================================================ claims ====
\* the step in which the suspended handleUnlock invocation c resumes from
\* crypto.decrypt and runs to its return
UnlockDecryptedStep(c) ==
    /\ page = "vault.html"
    /\ c \in Suspended("handleUnlock", "decrypt")
    /\ Commit(handleUnlockDecrypted(Resumed(c, "handleUnlock"), c))

\* the step in which the suspended handleUnlock invocation c resumes from
\* loadPasswords, the select having answered res
UnlockLoadedStep(c, res) ==
    /\ page = "vault.html"
    /\ c \in Suspended("handleUnlock", "load")
    /\ Commit(handleUnlockLoaded(Resumed(c, "handleUnlock"), c, res))

\* the step in which handleUnlock is invoked with mp typed into the input
UnlockStartStep(mp) ==
    /\ page = "vault.html"
    /\ Commit(handleUnlock(Before("handleUnlock"), mp))

\* the step that is one run of handleLock
LockStep ==
    /\ page = "vault.html"
    /\ Commit(handleLock(Before("handleLock")))

\* the decrypt call the suspended invocation c has made rejects / resolves
Rejects(c) ==
    LET iv == splitIv(c.item)
    IN ~decryptOk(c.item.encrypted_password, iv.ivBase64, iv.saltBase64, c.secret)

\* passwords[0] decrypts under the candidate of the invocation c
CandidateDecrypts(c) ==
    LET iv == splitIv(c.item)
    IN decryptOk(c.item.encrypted_password, iv.ivBase64, iv.saltBase64, c.cand)

UnlockCalls == {c \in BagToSet(calls) : c.h = "handleUnlock"}

\* the number of suspended invocations of B that wait for a crypto call
CryptoPending(B) ==
    SumOver(B, {c \in DOMAIN B : c.pc \in {"decrypt", "encrypt"}})

\* C1: in every reachable state masterPassword is non-null only if its value
\* has been verified (the decrypt of passwords[0] with it succeeded, or the
\* loaded list was empty when handleUnlock checked it)
C1_UnlockedOnlyIfVerified == masterPassword # NULL => verified

\* C2: when the decrypt call of a handleUnlock invocation rejects, then at the
\* return of the invocation masterPassword is null, the vault container is
\* hidden, the unlock modal is shown with the incorrect-master-password error,
\* and no step of the invocation that led there has set 'vaultUnlocked'
C2_FailedUnlock ==
    [][/\ \A c \in Suspended("handleUnlock", "decrypt") :
            (Rejects(c) /\ UnlockDecryptedStep(c))
            => /\ masterPassword' = NULL
               /\ hidden'.vaultContainer
               /\ ~hidden'.unlockModal
               /\ unlockError' = MsgIncorrect
               /\ vaultUnlocked' = vaultUnlocked
       /\ \A c \in Suspended("handleUnlock", "load"), res \in Responses :
            (passwords' # <<>> /\ UnlockLoadedStep(c, res))
            => vaultUnlocked' = vaultUnlocked
       /\ \A mp \in Secrets :
            (CryptoPending(calls') > CryptoPending(calls) /\ UnlockStartStep(mp))
            => vaultUnlocked' = vaultUnlocked]_vars

\* C2 witness: a failed unlock has returned
C2_Witness ==
    /\ unlockError = MsgIncorrect
    /\ masterPassword = NULL
    /\ ~hidden.unlockModal
    /\ passwords # <<>>
    /\ vaultUnlocked = NULL

\* C3: when a handleUnlock invocation with candidate c that no other handler
\* interrupted resumes from a decrypt of passwords[0] that succeeds with c, then
\* at its return masterPassword = c, the unlock modal is hidden, the vault
\* container is visible and 'vaultUnlocked' is '1'
C3_SuccessfulUnlock ==
    [][\A c \in Suspended("handleUnlock", "decrypt") :
          (c.intr = "none" /\ CandidateDecrypts(c) /\ UnlockDecryptedStep(c))
          => /\ masterPassword' = c.cand
             /\ hidden'.unlockModal
             /\ ~hidden'.vaultContainer
             /\ vaultUnlocked' = "1"]_vars

\* C3 witness: an unlock of a vault with a record has returned with success
C3_Witness ==
    /\ vaultUnlocked = "1"
    /\ masterPassword = "a"
    /\ verified
    /\ passwords # <<>>
    /\ hidden.unlockModal
    /\ ~hidden.vaultContainer
    /\ toast = ToastUnlocked
    /\ calls = EmptyBag

\* C4: when a handleUnlock invocation with a non-empty candidate c finds the
\* loaded list empty, it makes no decrypt call and at its return masterPassword
\* = c, the vault container is visible and 'vaultUnlocked' is set
C4_EmptyVaultAcceptsAnySecret ==
    [][\A c \in Suspended("handleUnlock", "load") :
          (UnlockLoadedStep(c, "ok") /\ passwords' = <<>>)
          => /\ CryptoPending(calls') = CryptoPending(calls)
             /\ masterPassword' = c.cand
             /\ ~hidden'.vaultContainer
             /\ vaultUnlocked' = "1"]_vars

\* C5: a handleUnlock invoked while an earlier handleUnlock invocation is
\* suspended changes none of masterPassword, passwords and the visible modals
C5_SecondUnlockRejected ==
    [][\A mp \in Secrets :
          (UnlockCalls # {} /\ UnlockStartStep(mp))
          => /\ masterPassword' = masterPassword
             /\ passwords' = passwords
             /\ hidden' = hidden]_vars

\* C6: when handleLock returns, masterPassword is null, passwords is empty,
\* currentVaultId is null and the vault container is hidden, whatever is
\* suspended; and masterPassword is null in every state from there until a
\* handleUnlock invocation begins
C6_LockUnconditional ==
    [][/\ LockStep => /\ masterPassword' = NULL
                      /\ passwords' = <<>>
                      /\ currentVaultId' = NULL
                      /\ hidden'.vaultContainer
                      /\ lockedSince'
       /\ lockedSince' => masterPassword' = NULL]_vars

\* C6 witness: since the lock, an invocation that was suspended across it has
\* resumed and loaded the rows, and masterPassword is null
C6_Witness ==
    /\ lockedSince
    /\ passwords # <<>>
    /\ masterPassword = NULL

\* C7: after handleLock has returned and until a handleUnlock invocation
\* begins, no step starts a crypto.encrypt or crypto.decrypt call
C7_NoCryptoAfterLock ==
    [][lockedSince' => CryptoPending(calls') <= CryptoPending(calls)]_vars

\* the values a claim about the session reads
Session(s) ==
    [masterPassword |-> s.masterPassword, passwords |-> s.passwords,
     currentVaultId |-> s.currentVaultId, currentVaultName |-> s.currentVaultName,
     hidden |-> s.hidden]

\* C8: when a handleUnlock invocation with candidate c returns and exactly one
\* step ran while it was suspended, a handleLock, the result is the result of
\* handleUnlock then handleLock (secret, rows and selection cleared, container
\* hidden) or of handleLock then handleUnlock (no vault selected, so no rows
\* loaded and c accepted)
C8_UnlockLockSerial ==
    [][\A c \in UnlockCalls :
          (/\ c.intr = "handleLock"
           /\ \/ UnlockDecryptedStep(c)
              \/ \E res \in Responses :
                    UnlockLoadedStep(c, res) /\ CryptoPending(calls') = CryptoPending(calls))
          => /\ passwords' = <<>>
             /\ currentVaultId' = NULL
             /\ ~hidden'.vaultSelectionModal
             /\ \/ masterPassword' = NULL /\ hidden'.vaultContainer
                \/ /\ masterPassword' = c.cand
                   /\ ~hidden'.vaultContainer
                   /\ vaultUnlocked' = "1"]_vars

\* C9 (as stated): a handleLock that runs while masterPassword is null changes
\* none of masterPassword, passwords, currentVaultId, currentVaultName and the
\* visible modals
C9_LockNoOpWhenLocked ==
    [][(masterPassword = NULL /\ LockStep) => Session(State)' = Session(State)]_vars

\* C9 (amended): a handleLock run right after a handleLock changes nothing, and
\* a handleLock that runs while masterPassword is null leaves it null
C9_LockIdempotent ==
    [][LockStep => /\ Session(handleLock(State))' = Session(State)'
                   /\ masterPassword = NULL => masterPassword' = NULL]_vars

\* C9 witness: handleLock has returned in a session that no unlock has opened
C9_Witness ==
    /\ lockedSince
    /\ masterPassword = NULL
    /\ currentVaultId = NULL
    /\ ~hidden.vaultSelectionModal
    /\ hidden.vaultContainer
    /\ vaultUnlocked = NULL
    /\ calls = EmptyBag

\* C10: in every reachable state 'vaultUnlocked' is '1' only if masterPassword
\* is non-null
C10_FlagOnlyIfUnlocked == vaultUnlocked = "1" => masterPassword # NULL

IsEncryptOutput(row) ==
    \E p \in Plaintexts, s \in Secrets \cup {NULL}, n \in 0..MaxEncrypts :
        /\ row.encrypted_password = encrypt(p, s, n).encrypted
        /\ row.iv = packIv(encrypt(p, s, n))

\* C12: every row of the 'passwords' table, and every insert or update payload
\* on its way there, carries the password only as the output of crypto.encrypt
\* (encrypted_password and the packed iv:salt); no row lacks encrypted_password
C12_OnlyEncryptedRows ==
    /\ \A i \in 1..Len(dbPasswords) : IsEncryptOutput(dbPasswords[i])
    /\ \A c \in Suspended("handleSavePassword", "write") :
          /\ c.data # NoData =>
                IsEncryptOutput([encrypted_password |-> c.data.encrypted,
                                 iv |-> packIv(c.data)])
          /\ c.data = NoData => c.target # NULL

\* C12 witness: handleSavePassword has inserted a row
C12_Witness ==
    /\ Len(dbPasswords) = 2
    /\ toast = ToastAdded

\* the step in which the suspended showPasswordAction invocation c resumes
\* from crypto.decrypt and runs to its return
ShowDecryptedStep(c) ==
    /\ page = "vault.html"
    /\ c \in Suspended("showPasswordAction", "decrypt")
    /\ Commit(showPasswordActionDecrypted(Resumed(c, "showPasswordAction"), c))

\* C13: when showPasswordAction has called crypto.decrypt on a stored row with
\* the secret the row was encrypted under, the iv and salt it passed, split
\* from the packed field, are the ones crypto.encrypt returned, and the
\* plaintext that was saved is copied to the clipboard
C13_RoundTrip ==
    [][\A c \in Suspended("showPasswordAction", "decrypt") :
          (c.item.encrypted_password.key = c.secret /\ ShowDecryptedStep(c))
          => /\ splitIv(c.item).ivBase64 = c.item.encrypted_password.iv
             /\ splitIv(c.item).saltBase64 = c.item.encrypted_password.salt
             /\ clipboard' = c.item.encrypted_password.pt
             /\ clipboard' \in Plaintexts]_vars

\* C13 witness: the one row of the table was stored by handleSavePassword and
\* showPasswordAction has copied its plaintext
C13_Witness ==
    /\ rng = 1
    /\ Len(dbPasswords) = 1
    /\ clipboard = "p"
    /\ toast = ToastCopied

\* the step in which the handleUnlock invocation c returns
UnlockReturnStep(c) ==
    \/ UnlockDecryptedStep(c)
    \/ \E res \in Responses :
          UnlockLoadedStep(c, res) /\ CryptoPending(calls') = CryptoPending(calls)

\* the vault vid holds records and all of them are encrypted under k
Authoritative(vid, k) ==
    LET rows == selectPasswords(dbPasswords, vid)
    IN /\ Len(rows) > 0
       /\ \A i \in 1..Len(rows) : rows[i].encrypted_password.key = k

\* C14: once every record of a vault is encrypted under the secret k its first
\* unlock accepted, a handleUnlock of that vault with a candidate other than k
\* ends Locked: at its return masterPassword is null and it has not set
\* 'vaultUnlocked'
C14_AuthoritativeSecret ==
    [][\A c \in UnlockCalls, k \in Secrets :
          (Authoritative(c.vid, k) /\ c.cand # k /\ UnlockReturnStep(c))
          => /\ masterPassword' = NULL
             /\ vaultUnlocked' = vaultUnlocked]_vars

\* C15: when the decrypt call of a showPasswordAction invocation rejects, the
\* clipboard is not written, the decrypt-failed toast is shown and
\* masterPassword, passwords and currentVaultId are unchanged; and whatever
\* failed before, a showPasswordAction whose decrypt call resolves copies the
\* plaintext of its record
C15_DecryptFailureIsolated ==
    [][\A c \in Suspended("showPasswordAction", "decrypt") :
          /\ (Rejects(c) /\ ShowDecryptedStep(c))
             => /\ clipboard' = clipboard
                /\ toast' = ToastDecryptFailed
                /\ masterPassword' = masterPassword
                /\ passwords' = passwords
                /\ currentVaultId' = currentVaultId
          /\ (~Rejects(c) /\ ShowDecryptedStep(c))
             => /\ clipboard' = c.item.encrypted_password.pt
                /\ toast' = ToastCopied]_vars

\* C15 witness: in a session that holds a secret and two records, the decrypt
\* of one record has failed
C15_Witness ==
    /\ toast = ToastDecryptFailed
    /\ masterPassword # NULL
    /\ Len(passwords) = 2
    /\ clipboard = NULL

\* what the caller of handleUnlock can observe of its outcome
Outcome(s) ==
    [unlockError |-> s.unlockError, hidden |-> s.hidden, toast |-> s.toast,
     masterPassword |-> s.masterPassword, vaultUnlocked |-> s.vaultUnlocked,
     leaked |-> s.leaked]

\* the outcome of a failed verification, from the state the step starts in
FailedOutcome(s) ==
    [unlockError |-> MsgIncorrect,
     hidden |-> [s.hidden EXCEPT !.unlockModal = FALSE, !.vaultContainer = TRUE],
     toast |-> "", masterPassword |-> NULL, vaultUnlocked |-> s.vaultUnlocked,
     leaked |-> s.leaked]

\* C16: whenever the verification of a handleUnlock invocation fails, because
\* of a wrong candidate or because the sample record's ciphertext, iv, salt or
\* iv field was altered, the observable outcome is one and the same: the
\* incorrect-master-password text, unlock modal shown, container hidden,
\* masterPassword null, 'vaultUnlocked' not set, nothing else shown or logged
C16_FailureCausesIndistinguishable ==
    [][\A c \in Suspended("handleUnlock", "decrypt") :
          ((Rejects(c) \/ c.item # FirstRow) /\ UnlockDecryptedStep(c))
          => Outcome(State)' = FailedOutcome(State)]_vars

\* C16 witness: an unlock has failed on a record whose iv field has no separator
C16_Witness ==
    /\ unlockError = MsgIncorrect
    /\ masterPassword = NULL
    /\ Len(passwords) = 1
    /\ Len(split(passwords[1].iv)) = 1
    /\ Len(passwords[1].iv) > 0

\* C17: a password that showPasswordAction copied to the clipboard is
\* eventually removed from it again (the automatic clearing after 30 seconds)
C17_ClipboardCleared == (clipboard \in Plaintexts) ~> (clipboard \notin Plaintexts)

\* a step of one of the record handlers
RecordHandlerStep ==
    \/ HandleSavePassword
    \/ HandleSavePasswordEncrypted
    \/ HandleSavePasswordWritten
    \/ HandleSavePasswordReloaded
    \/ ShowPasswordAction
    \/ ShowPasswordActionDecrypted
    \/ HandleConfirmDelete
    \/ HandleConfirmDeleteDone
    \/ HandleConfirmDeleteReloaded
    \/ CopyUsername
    \/ EditPasswordAction
    \/ HandleSearch

\* C18: no step of handleSavePassword, showPasswordAction, handleConfirmDelete,
\* copyUsername, editPasswordAction or handleSearch changes masterPassword, on
\* success or on failure, and neither does loadPasswords wherever it is called
C18_RecordHandlersKeepSecret ==
    [][/\ RecordHandlerStep => masterPassword' = masterPassword
       /\ \A c \in Suspended("handleUnlock", "load"), res \in Responses :
             loadPasswordsDone(Resumed(c, "handleUnlock"), c.vid, res).masterPassword
                 = masterPassword]_vars

\* C18 witness: a record was saved and deleted again and the secret is still set
C18_Witness ==
    /\ toast = "Password deleted"
    /\ masterPassword \in Secrets
    /\ rng > 0

\* the insert of handleCreateVault invocation c returns the new row
CreateInsertedStep(c) ==
    /\ page = "vault.html"
    /\ c \in Suspended("handleCreateVault", "insert")
    /\ Len(dbVaults) < Len(VaultIdPool)
    /\ Commit(handleCreateVaultInserted(Resumed(c, "handleCreateVault"), c, "ok"))

\* loadPasswords of handleCreateVault invocation c settles and the handler ends
CreateLoadedStep(c) ==
    /\ page = "vault.html"
    /\ c \in Suspended("handleCreateVault", "load")
    /\ \E res \in Responses :
          Commit(handleCreateVaultLoaded(Resumed(c, "handleCreateVault"), c, res))

\* C19: when the insert of handleCreateVault succeeds, the session holds the
\* chosen master password with the vault container visible and the new vault
\* current, and the rest of the handler keeps the master password
C19_CreateOpensVault ==
    [][/\ \A c \in Suspended("handleCreateVault", "insert") :
             CreateInsertedStep(c)
             => /\ masterPassword' = c.cand
                /\ ~hidden'.vaultContainer
                /\ currentVaultId' = VaultIdPool[Len(dbVaults) + 1]
       /\ \A c \in Suspended("handleCreateVault", "load") :
             CreateLoadedStep(c) => masterPassword' = masterPassword]_vars

\* C20: when the select of loadPasswords inside handleUnlock returns an error
\* and handleUnlock returns, masterPassword is null, 'vaultUnlocked' was not
\* set, and an unlock error is shown, not the 'unlocked' toast
C20_FailedFetchDoesNotUnlock ==
    [][\A c \in Suspended("handleUnlock", "load") :
          (UnlockLoadedStep(c, "error") /\ CryptoPending(calls') = CryptoPending(calls))
          => /\ masterPassword' = NULL
             /\ vaultUnlocked' = vaultUnlocked
             /\ unlockError' # MsgNone
             /\ toast' # ToastUnlocked]_vars

\* C21: every record held in passwords was fetched for the vault that
\* currentVaultId names, so the record handleUnlock decrypts for verification
\* belongs to the vault being unlocked, whatever the order of the responses
C21_PasswordsOfCurrentVault ==
    /\ \A i \in 1..Len(passwords) : passwords[i].vault_id = currentVaultId
    /\ \A c \in Suspended("handleUnlock", "decrypt") :
          c.intr = "none" => c.item.vault_id = currentVaultId

\* the stored iv field of a row is iv + ':' + salt of the call that made its ciphertext
SaltWithCiphertext(db) ==
    \A i \in 1..Len(db) :
        db[i].iv = db[i].encrypted_password.iv \o <<":">> \o db[i].encrypted_password.salt

\* the update or insert of handleSavePassword invocation c succeeds
SaveWrittenStep(c) ==
    /\ page = "vault.html"
    /\ c \in Suspended("handleSavePassword", "write")
    /\ Commit(handleSavePasswordWritten(Resumed(c, "handleSavePassword"), c, "ok"))

\* C22: every stored record's iv field is iv + ':' + salt of the crypto.encrypt
\* call that produced its encrypted_password; an edit with a non-blank password
\* replaces both fields by the result of a new crypto.encrypt call, an edit
\* with a blank password changes neither, and no insert lacks the two fields
C22_SaltAndIvWithCiphertext ==
    [][/\ SaltWithCiphertext(dbPasswords) /\ SaltWithCiphertext(dbPasswords')
       /\ \A c \in Suspended("handleSavePassword", "write") :
             SaveWrittenStep(c) =>
                /\ (c.target # NULL /\ c.data = NoData) =>
                      /\ Len(dbPasswords') = Len(dbPasswords)
                      /\ \A i \in 1..Len(dbPasswords) :
                            /\ dbPasswords'[i].encrypted_password
                                   = dbPasswords[i].encrypted_password
                            /\ dbPasswords'[i].iv = dbPasswords[i].iv
                /\ (c.target # NULL /\ c.data # NoData) =>
                      /\ \E n \in 1..rng : c.data = encrypt(c.plain, c.secret, n)
                      /\ \A i \in 1..Len(dbPasswords) :
                            dbPasswords[i].id = c.target =>
                               /\ dbPasswords'[i].encrypted_password = c.data.encrypted
                               /\ dbPasswords'[i].iv = c.data.iv \o <<":">> \o c.data.salt
                /\ c.target = NULL =>
                      /\ c.data # NoData
                      /\ Len(dbPasswords') = Len(dbPasswords) + 1
                      /\ dbPasswords'[Len(dbPasswords')].encrypted_password = c.data.encrypted]_vars

\* C22 witness: the stored record was edited with a new password
C22_Witness ==
    /\ toast = ToastUpdated
    /\ Len(dbPasswords) = 1
    /\ dbPasswords[1].encrypted_password.iv = IvOf(1)
    /\ dbPasswords[1].iv = IvOf(1) \o <<":">> \o SaltOf(1)

\* crypto.encrypt of handleSavePassword invocation c settles and the write is sent
SaveEncryptedStep(c) ==
    /\ page = "vault.html"
    /\ c \in Suspended("handleSavePassword", "encrypt")
    /\ Commit(handleSavePasswordEncrypted(Resumed(c, "handleSavePassword"), c))

\* C23: a handleSavePassword invocation started while editing record R with
\* vault V selected sends, after crypto.encrypt, an update of R (no insert)
\* whose row carries vault_id = V
C23_SaveKeepsTarget ==
    [][\A c \in Suspended("handleSavePassword", "encrypt") :
          (c.target # NULL /\ SaveEncryptedStep(c))
          => \A d \in Suspended("handleSavePassword", "write")' :
                d.target = c.target /\ d.vid = c.vid]_vars

\* the delete of the records of handleConfirmDeleteVault invocation c answers
DeleteVaultRecordsStep(c, res) ==
    /\ page = "vault.html"
    /\ c \in Suspended("handleConfirmDeleteVault", "records")
    /\ Commit(handleConfirmDeleteVaultRecords(Resumed(c, "handleConfirmDeleteVault"), c, res))

\* the delete of the vault row of handleConfirmDeleteVault invocation c answers
DeleteVaultRowStep(c, res) ==
    /\ page = "vault.html"
    /\ c \in Suspended("handleConfirmDeleteVault", "row")
    /\ Commit(handleConfirmDeleteVaultRow(Resumed(c, "handleConfirmDeleteVault"), c, res))

\* C24: a handleConfirmDeleteVault invocation confirmed for vault A deletes the
\* records of A, then the vault row of A, and on success removes A and only A
\* from the local list and resets currentVaultId exactly if it was A, whatever
\* showDeleteVaultModal or closeDeleteVaultModal did during its awaits
C24_DeletionActsOnOneVault ==
    [][/\ \A c \in Suspended("handleConfirmDeleteVault", "records") :
             DeleteVaultRecordsStep(c, "ok")
             => /\ dbPasswords' = deleteRecordsOf(dbPasswords, c.target)
                /\ \A d \in Suspended("handleConfirmDeleteVault", "row")' :
                      d.vid = c.target
       /\ \A c \in Suspended("handleConfirmDeleteVault", "row") :
             DeleteVaultRowStep(c, "ok")
             => /\ dbVaults' = deleteVaultRow(dbVaults, c.target)
                /\ vaults' = deleteVaultRow(vaults, c.target)
                /\ currentVaultId' = IF currentVaultId = c.target
                                     THEN NULL ELSE currentVaultId]_vars

\* C25: when handleConfirmDeleteVault reports failure, the vault it was
\* confirmed for still exists with the records it had, and the local vaults
\* list and currentVaultId are unchanged
C25_DeletionAllOrNothing ==
    [][\A c \in Suspended("handleConfirmDeleteVault", "records")
                \cup Suspended("handleConfirmDeleteVault", "row") :
          (DeleteVaultRecordsStep(c, "error") \/ DeleteVaultRowStep(c, "error"))
          => /\ toast' = "Kasa silinemedi"
             /\ vaults' = vaults
             /\ currentVaultId' = currentVaultId
             /\ \E i \in 1..Len(dbVaults') : dbVaults'[i].id = c.target
             /\ \A i \in 1..Len(VaultRows) :
                   VaultRows[i].vault_id = c.target => dbPasswords'[i] = VaultRows[i]]_vars

\* C26: whenever no handler is suspended and masterPassword is null, the
\* record list passwords is empty
C26_NoRecordsWhileLocked ==
    (InFlight = 0 /\ masterPassword = NULL) => passwords = <<>>

\* C27: a session that holds a master password has a current vault, and the
\* current vault is one of the local vaults list; here for the state right
\* after the unlock form, visible in its modal, was submitted
C27_UnlockedSessionHasVault ==
    [][\A mp \in Secrets :
          (~hidden.unlockModal /\ UnlockStartStep(mp) /\ masterPassword' # NULL)
          => \E i \in 1..Len(vaults') : vaults'[i].id = currentVaultId']_vars

\* C28: handleUnlock with an empty master-password input shows the validation
\* error and returns: masterPassword, passwords, 'vaultUnlocked' and the
\* visibility of the container and the modals are as before, no request is
\* sent and no invocation is left suspended for loadPasswords or crypto.decrypt
C28_EmptyCandidateRejected ==
    [][UnlockStartStep("")
       => /\ unlockError' = MsgEnterMaster
          /\ masterPassword' = masterPassword
          /\ passwords' = passwords
          /\ vaultUnlocked' = vaultUnlocked
          /\ hidden' = hidden
          /\ InFlight' = InFlight
          /\ CryptoPending(calls') = CryptoPending(calls)
          /\ leaked' = leaked
          /\ toast' # ToastUnlocked
          /\ <<dbVaults, dbPasswords, currentVaultId, verified>>'
                = <<dbVaults, dbPasswords, currentVaultId, verified>>]_vars

\* C28 witness: the empty form was submitted in an unlocked session, which
\* still holds its master password and its records
C28_Witness ==
    /\ unlockError = MsgEnterMaster
    /\ masterPassword \in Secrets
    /\ passwords # <<>>
    /\ vaultUnlocked = "1"

\* the character classes a text contains
Classes(password) ==
    {k \in {"lowercase", "uppercase", "digit", "symbol"} :
        \/ k = "lowercase" /\ hasLower(password)
        \/ k = "uppercase" /\ hasUpper(password)
        \/ k = "digit" /\ hasDigit(password)
        \/ k = "symbol" /\ hasSymbol(password)}

\* the keystroke that appends ch to the master password input
InputCharStep(ch) ==
    /\ page = "vault.html"
    /\ Len(newVaultMasterPassword) < MaxPwLen
    /\ Commit(inputNewVaultMasterPassword(Before("updateNewVaultPasswordStrength"),
                                          Append(newVaultMasterPassword, ch)))

\* C29: when an edit of the input keeps the length and the character classes
\* of the text and adds a class that was absent, the strength value shown
\* (level and bar width) is not lower than before; and for the empty text the
\* lowest band with value 0 is shown
C29_StrengthMonotonicInClasses ==
    [][/\ (/\ Len(newVaultMasterPassword') = Len(newVaultMasterPassword)
           /\ Classes(newVaultMasterPassword) \subseteq Classes(newVaultMasterPassword')
           /\ Classes(newVaultMasterPassword') # Classes(newVaultMasterPassword))
          => /\ newVaultPasswordStrength'.strength >= newVaultPasswordStrength.strength
             /\ newVaultPasswordStrength'.width >= newVaultPasswordStrength.width
       /\ newVaultMasterPassword' = <<>>
          => /\ newVaultPasswordStrength'.strength = 0
             /\ newVaultPasswordStrength'.width = 0
             /\ newVaultPasswordStrength'.label = ""]_vars

\* C29 witness: an eight-character text that ends in a symbol holds all four
\* classes and shows the highest value
C29_Witness ==
    /\ Len(newVaultMasterPassword) = MaxPwLen
    /\ Classes(newVaultMasterPassword) = {"lowercase", "uppercase", "digit", "symbol"}
    /\ newVaultMasterPassword[MaxPwLen] = "!"
    /\ newVaultPasswordStrength.width = 100

\* C30: the point total of the scorer increases when a keystroke adds a
\* character of a class that was absent (lowercase included), and when it
\* takes the text to one of the lengths 8, 12, 16, 20
C30_PointsPerThresholdAndClass ==
    [][\A ch \in Chars :
          InputCharStep(ch)
          => /\ Classes(newVaultMasterPassword') # Classes(newVaultMasterPassword)
                => newVaultPasswordStrength'.strength > newVaultPasswordStrength.strength
             /\ Len(newVaultMasterPassword') \in {8, 12, 16, 20}
                => newVaultPasswordStrength'.strength > newVaultPasswordStrength.strength]_vars

====
